---- MODULE Spec2Model ----
(***************************************************************************)
(* Model of safe-bank-router: the coverage route (catalog index, labelling *)
(* loop, cap application, totals), the client component DemoApp (initial   *)
(* load, cap toggle, re-capped rows, computeRouting).                      *)
(*                                                                         *)
(* Text is modelled as a sequence of characters, each character being a    *)
(* one-element TLA+ string.  A Hangul syllable is one character and is     *)
(* written in romanised form ("eun" for U+C740), the middle dot is written *)
(* "middot".  Amounts are whole won.  An optional field of a JSON object   *)
(* is a set: {} when the field is absent, {v} when it holds v.             *)
(***************************************************************************)
EXTENDS Integers, Sequences, FiniteSets, TLC

(* ------------------------------ bounds -------------------------------- *)
\* longest holdings list a mydata response carries
MaxAccounts == 2

(* ------------------------- numeric helpers ---------------------------- *)
Min(a, b) == IF a <= b THEN a ELSE b
Max(a, b) == IF a >= b THEN a ELSE b

\* Math.round of the rational num/den (den > 0): nearest integer, halves up
Round(num, den) == (2 * num + den) \div (2 * den)

RECURSIVE Sum(_)
Sum(s) == IF s = <<>> THEN 0 ELSE Head(s) + Sum(Tail(s))

\* x ?? d
OrElse(x, d) == IF x = {} THEN d ELSE CHOOSE v \in x : TRUE

(* --------------------------- text helpers ----------------------------- *)
\* RegExp.test for a literal pattern: pat occurs somewhere in s
Contains(s, pat) ==
  \E i \in 0..(Len(s) - Len(pat)) : SubSeq(s, i + 1, i + Len(pat)) = pat

Whitespace == {" ", "\t", "\n"}
\* the class [(){}\[\]·,\-_/] of key
Punctuation == {"(", ")", "{", "}", "[", "]", "middot", ",", "-", "_", "/"}

UpperCase == << "A", "B", "C", "D", "E", "F", "G", "H", "I", "J", "K", "L", "M",
               "N", "O", "P", "Q", "R", "S", "T", "U", "V", "W", "X", "Y", "Z" >>
LowerCase == << "a", "b", "c", "d", "e", "f", "g", "h", "i", "j", "k", "l", "m",
               "n", "o", "p", "q", "r", "s", "t", "u", "v", "w", "x", "y", "z" >>

\* String.prototype.toLowerCase on one character
toLowerCase(c) ==
  IF \E i \in 1..Len(UpperCase) : UpperCase[i] = c
  THEN LowerCase[CHOOSE i \in 1..Len(UpperCase) : UpperCase[i] = c]
  ELSE c

\* variant: the punctuation replace written without the g flag, so that only
\* the first punctuation character is removed
RECURSIVE DropFirstPunctuation(_)
DropFirstPunctuation(s) ==
  IF s = <<>> THEN <<>>
  ELSE IF Head(s) \in Punctuation THEN Tail(s)
       ELSE <<Head(s)>> \o DropFirstPunctuation(Tail(s))

KeyWithoutGlobalFlag(s) ==
  DropFirstPunctuation(
    SelectSeq([i \in 1..Len(s) |-> toLowerCase(s[i])], LAMBDA c : c \notin Whitespace))

RECURSIVE key(_)
key(s) ==
  IF s = <<>> THEN <<>>
  ELSE LET c == toLowerCase(Head(s))
       IN  IF c \in Whitespace \/ c \in Punctuation
           THEN key(Tail(s))
           ELSE <<c>> \o key(Tail(s))

RECURSIVE trimStart(_)
trimStart(s) ==
  IF s # <<>> /\ Head(s) \in Whitespace THEN trimStart(Tail(s)) ELSE s

RECURSIVE trimEnd(_)
trimEnd(s) ==
  IF s # <<>> /\ s[Len(s)] \in Whitespace
  THEN trimEnd(SubSeq(s, 1, Len(s) - 1))
  ELSE s

trim(s) == trimEnd(trimStart(s))

(* ------------------------------ names --------------------------------- *)
Eunhaeng        == <<"eun", "haeng">>
Kookmin         == <<"guk", "min">> \o Eunhaeng
Shinhan         == <<"sin", "han">> \o Eunhaeng
Hana            == <<"ha", "na">> \o Eunhaeng
Nonghyup        == <<"nong", "hyeop">> \o Eunhaeng
SavingsC        == <<"jeo", "chuk">> \o Eunhaeng \o <<"C">>
Meritz          == <<"me", "ri", "cheu", "jeung", "gwon">>
KBSavings       == <<"K", "B", "jeo", "chuk">> \o Eunhaeng

\* the suffix " 라이선스" of toLicense and of the coverage route's fallback
LicenseSuffix   == <<" ", "ra", "i", "seon", "seu">>
toLicense(inst) == inst \o LicenseSuffix

TermDeposit     == <<"jeong", "gi", "ye", "geum">>
TermDeposit12M  == TermDeposit \o <<" ", "1", "2", "M">>
TermDepositPunc == <<"jeong", "gi", "-", "ye", "geum", " ", "(", "1", "2", "m", ")">>
OrdinaryDeposit == <<"bo", "tong", "ye", "geum">>
ForeignDeposit  == <<"oe", "hwa", "ye", "geum">>
WrapAccount     == <<"S", "M", "A", "R", "T", " ", "raep">>
CmaAccount      == <<"C", "M", "A">>
MoneyTrust      == <<"won", "bon", "bo", "jeon", " ", "sin", "tak">>

(* ------------------ mydata route: inferTypeFromProduct ---------------- *)
\* the alternatives of the four regular expressions
TermKeywords ==
  { TermDeposit, <<"ye", "chi">>, <<"man", "gi">>, <<"jeok", "geum">>,
    <<"wol", "bok", "ri">>, <<"dan", "ri">> }
DemandKeywords ==
  { <<"ip", "chul", "geum">>, OrdinaryDeposit, <<"bo", "tong">>,
    <<"ja", "yu", "ip", "chul", "geum">>, <<"su", "si", "ip", "chul", "geum">>,
    <<"tong", "jang">>, <<"geup", "yeo">>, <<"wol", "geup">>, <<"che", "keu">> }
FxKeywords ==
  { <<"oe", "hwa">>, <<"dal", "reo">>, <<"U", "S", "D">>, <<"mi", "guk", "dal", "reo">> }
TrustKeywords ==
  { <<"geum", "jeon", "sin", "tak">>, <<"won", "bon", "bo", "jeon">>, <<"sin", "tak">> }

\* /(k1|k2|...)/.test(n)
Test(keywords, n) == \E k \in keywords : Contains(n, k)

\* /(k1|k2|...)/i.test(n)
TestIgnoreCase(keywords, n) ==
  \E k \in keywords :
    Contains([i \in 1..Len(n) |-> toLowerCase(n[i])], [i \in 1..Len(k) |-> toLowerCase(k[i])])

\* variant: the demand test moved in front of the term test
InferTypeDemandFirst(name) ==
  IF Test(DemandKeywords, name) THEN "demand"
  ELSE IF Test(TermKeywords, name) THEN "term"
  ELSE IF TestIgnoreCase(FxKeywords, name) THEN "fx_deposit"
  ELSE IF Test(TrustKeywords, name) THEN "trust_protected"
  ELSE "demand"

inferTypeFromProduct(name) ==
  IF Test(TermKeywords, name) THEN "term"
  ELSE IF Test(DemandKeywords, name) THEN "demand"
  ELSE IF TestIgnoreCase(FxKeywords, name) THEN "fx_deposit"
  ELSE IF Test(TrustKeywords, name) THEN "trust_protected"
  ELSE "demand"

(* ------------------------- program constants -------------------------- *)
\* const liquidityReserve = 10_000_000
liquidityReserve == 10000000
\* Math.min(remain, room, 60_000_000)
perOfferCeiling  == 60000000
\* a.fxRate ?? 1400
defaultFxRate    == 1400
\* const limit = use100m ? 100_000_000 : 50_000_000
limit100m        == 100000000
limit50m         == 50000000
\* rates are kept in thousandths (0.033 is 33), exchange rates in tenths
RateScale        == 1000
FxScale          == 10

\* const rateOffers = [...]
rateOffers == <<
  [institution |-> Kookmin,  license |-> toLicense(Kookmin),
   product |-> TermDeposit \o <<" ", "1", "2", "M", "(", "bok", "ri", ")">>,
   tenorM |-> 12, rate |-> 33],
  [institution |-> Shinhan,  license |-> toLicense(Shinhan),
   product |-> TermDeposit \o <<" ", "6", "M", "(", "dan", "ri", ")">>,
   tenorM |-> 6,  rate |-> 31],
  [institution |-> Hana,     license |-> toLicense(Hana),
   product |-> TermDeposit \o <<" ", "3", "M", "(", "dan", "ri", ")">>,
   tenorM |-> 3,  rate |-> 29],
  [institution |-> Nonghyup, license |-> toLicense(Nonghyup),
   product |-> TermDeposit \o <<" ", "1", "2", "M", "(", "dan", "ri", ")">>,
   tenorM |-> 12, rate |-> 34],
  [institution |-> SavingsC, license |-> toLicense(SavingsC),
   product |-> TermDeposit12M,
   tenorM |-> 12, rate |-> 39] >>

ProtectedTypes == {"demand", "term", "fx_deposit", "trust_protected"}

(* --------------------- shared helpers of both files ------------------- *)
\* variant: Math.floor for Math.round
toKRWTruncating(a) ==
  IF a.currency = "USD"
  THEN (OrElse(a.balance, 0) * OrElse(a.fxRate, defaultFxRate * FxScale)) \div FxScale
  ELSE OrElse(a.balance, 0)

\* toKRW (coverage route)
toKRW(a) ==
  IF a.currency = "USD"
  THEN Round(OrElse(a.balance, 0) * OrElse(a.fxRate, defaultFxRate * FxScale), FxScale)
  ELSE OrElse(a.balance, 0)

\* toKRW (DemoApp)
toKRWClient(a) ==
  IF a.currency = "USD"
  THEN Round(OrElse(a.balance, 0) * OrElse(a.fxRate, defaultFxRate * FxScale), FxScale)
  ELSE OrElse(a.balance, 0)

\* String(x) of an optional text field used as an object key
KeyOf(x) == OrElse(x, <<"undefined">>)

(* ------------------- coverage route: catalog index -------------------- *)
\* loadKDIC: the data rows of the CSV (institution and product columns)
\* become the set of keys key(inst) + "|" + key(prod)
loadKDIC(csvRows) ==
  { key(trim(csvRows[i].institution)) \o <<"|">> \o key(trim(csvRows[i].product_name)) :
      i \in { n \in 1..Len(csvRows) :
                /\ trim(csvRows[n].institution) # <<>>
                /\ trim(csvRows[n].product_name) # <<>> } }

\* the alternatives of /저축은행|상호저축|신협|수협|새마을금고|농축협|상호금융/
Tier2Patterns ==
  { <<"jeo", "chuk", "eun", "haeng">>, <<"sang", "ho", "jeo", "chuk">>,
    <<"sin", "hyeop">>, <<"su", "hyeop">>,
    <<"sae", "ma", "eul", "geum", "go">>, <<"nong", "chuk", "hyeop">>,
    <<"sang", "ho", "geum", "yung">> }

\* classifyTier: "tier2" is 제2금융권, "tier1" is 제1금융권, "other" is 기타
classifyTier(inst) ==
  IF \E p \in Tier2Patterns : Contains(inst, p) THEN "tier2"
  ELSE IF Contains(inst, Eunhaeng) /\ ~Contains(inst, <<"jeo", "chuk">> \o Eunhaeng)
       THEN "tier1"
       ELSE "other"

(* ------------------ coverage route: labelling loop -------------------- *)
\* position of the row of license lic in the insertion-ordered map, 0 if none
RowIndex(byLicense, lic) ==
  IF \E i \in 1..Len(byLicense) : byLicense[i].license = lic
  THEN CHOOSE i \in 1..Len(byLicense) : byLicense[i].license = lic
  ELSE 0

\* const lic = a.license || `${a.institution} 라이선스`
LicenseKey(a) ==
  IF a.license = {} \/ a.license = {<<>>}
  THEN a.institution \o LicenseSuffix
  ELSE OrElse(a.license, <<>>)

\* variant: the category gate dropped, a catalog match alone makes eligible
IsEligibleMatchOnly(isProtectedType, matched) == matched

\* variant: || written for &&
IsEligibleEither(isProtectedType, matched) == isProtectedType \/ matched

\* the condition of `if (isProtectedType && matched)`
IsEligible(isProtectedType, matched) == isProtectedType /\ matched

\* variant: the amount is added to nonProtected without the else
AddNonProtectedAlways(nonProtected, eligible, amt) == nonProtected + amt

\* `else row.nonProtected += amt`
AddNonProtected(nonProtected, eligible, amt) ==
  IF eligible THEN nonProtected ELSE nonProtected + amt

\* kd.has(`${key(a.institution)}|${key(a.product_name ?? "")}`)
Matched(kd, institution, name) == (key(institution) \o <<"|">> \o key(name)) \in kd

\* variant: the display institution and the tier follow the latest holding
LabelStepLastSeen(byLicense, a, kd) ==
  LET lic     == LicenseKey(a)
      idx     == RowIndex(byLicense, lic)
      seeded  == IF idx = 0
                 THEN Append(byLicense,
                        [license |-> lic, institutions |-> a.institution,
                         products |-> <<>>, tier |-> classifyTier(a.institution),
                         eligible |-> 0, protected |-> 0, excess |-> 0,
                         nonProtected |-> 0, accounts |-> <<>>])
                 ELSE byLicense
      j       == IF idx = 0 THEN Len(seeded) ELSE idx
      row     == seeded[j]
      name    == OrElse(a.product_name, <<>>)
      isProtectedType == a.type \in ProtectedTypes
      matched == Matched(kd, a.institution, name)
      amt     == toKRW(a)
  IN  [seeded EXCEPT ![j] =
         [row EXCEPT
            !.institutions = a.institution,
            !.tier = classifyTier(a.institution),
            !.accounts = Append(@, a),
            !.products = IF name # <<>> /\ ~(\E k \in 1..Len(@) : @[k] = name)
                         THEN Append(@, name) ELSE @,
            !.eligible = IF IsEligible(isProtectedType, matched) THEN @ + amt ELSE @,
            !.nonProtected = AddNonProtected(@, IsEligible(isProtectedType, matched), amt)]]

\* the body of `for (const a of accounts)`
LabelStep(byLicense, a, kd) ==
  LET lic     == LicenseKey(a)
      idx     == RowIndex(byLicense, lic)
      seeded  == IF idx = 0
                 THEN Append(byLicense,
                        [license |-> lic, institutions |-> a.institution,
                         products |-> <<>>, tier |-> classifyTier(a.institution),
                         eligible |-> 0, protected |-> 0, excess |-> 0,
                         nonProtected |-> 0, accounts |-> <<>>])
                 ELSE byLicense
      j       == IF idx = 0 THEN Len(seeded) ELSE idx
      row     == seeded[j]
      name    == OrElse(a.product_name, <<>>)
      isProtectedType == a.type \in ProtectedTypes
      matched == Matched(kd, a.institution, name)
      amt     == toKRW(a)
  IN  [seeded EXCEPT ![j] =
         [row EXCEPT
            !.accounts = Append(@, a),
            !.products = IF name # <<>> /\ ~(\E k \in 1..Len(@) : @[k] = name)
                         THEN Append(@, name) ELSE @,
            !.eligible = IF IsEligible(isProtectedType, matched) THEN @ + amt ELSE @,
            !.nonProtected = AddNonProtected(@, IsEligible(isProtectedType, matched), amt)]]

RECURSIVE LabelLoop(_, _, _)
LabelLoop(byLicense, accounts, kd) ==
  IF accounts = <<>> THEN byLicense
  ELSE LabelLoop(LabelStep(byLicense, Head(accounts), kd), Tail(accounts), kd)

\* variant: the operands of the excess subtraction exchanged
ApplyCapSwapped(row, lim) ==
  [row EXCEPT !.protected = Min(row.eligible, lim),
              !.excess    = Max(0, lim - row.eligible)]

\* 4) cap application on one row
ApplyCap(row, lim) ==
  [row EXCEPT !.protected = Min(row.eligible, lim),
              !.excess    = Max(0, row.eligible - lim)]

\* variant: the tier test of the second branch dropped, every row that is not
\* tier 1 counts as tier 2
RECURSIVE TotalsTierElse(_)
TotalsTierElse(rs) ==
  IF rs = <<>>
  THEN [eligible |-> 0, protected |-> 0, excess |-> 0, nonProtected |-> 0,
        tier1 |-> 0, tier2 |-> 0]
  ELSE LET r   == rs[Len(rs)]
           acc == TotalsTierElse(SubSeq(rs, 1, Len(rs) - 1))
       IN  [eligible     |-> acc.eligible + r.eligible,
            protected    |-> acc.protected + r.protected,
            excess       |-> acc.excess + r.excess,
            nonProtected |-> acc.nonProtected + r.nonProtected,
            tier1        |-> IF r.tier = "tier1" THEN acc.tier1 + r.eligible ELSE acc.tier1,
            tier2        |-> IF r.tier # "tier1"
                             THEN acc.tier2 + r.eligible ELSE acc.tier2]

\* variant: the excess of a row accumulated into the nonProtected total
RECURSIVE TotalsExcessMisfiled(_)
TotalsExcessMisfiled(rs) ==
  IF rs = <<>>
  THEN [eligible |-> 0, protected |-> 0, excess |-> 0, nonProtected |-> 0,
        tier1 |-> 0, tier2 |-> 0]
  ELSE LET r   == rs[Len(rs)]
           acc == TotalsExcessMisfiled(SubSeq(rs, 1, Len(rs) - 1))
       IN  [eligible     |-> acc.eligible + r.eligible,
            protected    |-> acc.protected + r.protected,
            excess       |-> acc.excess,
            nonProtected |-> acc.nonProtected + r.nonProtected + r.excess,
            tier1        |-> IF r.tier = "tier1" THEN acc.tier1 + r.eligible ELSE acc.tier1,
            tier2        |-> IF r.tier # "tier1" /\ r.tier = "tier2"
                             THEN acc.tier2 + r.eligible ELSE acc.tier2]

\* 5) totals; also the reduce of `adjusted` in DemoApp
RECURSIVE Totals(_)
Totals(rs) ==
  IF rs = <<>>
  THEN [eligible |-> 0, protected |-> 0, excess |-> 0, nonProtected |-> 0,
        tier1 |-> 0, tier2 |-> 0]
  ELSE LET r   == rs[Len(rs)]
           acc == Totals(SubSeq(rs, 1, Len(rs) - 1))
       IN  [eligible     |-> acc.eligible + r.eligible,
            protected    |-> acc.protected + r.protected,
            excess       |-> acc.excess + r.excess,
            nonProtected |-> acc.nonProtected + r.nonProtected,
            tier1        |-> IF r.tier = "tier1" THEN acc.tier1 + r.eligible ELSE acc.tier1,
            tier2        |-> IF r.tier # "tier1" /\ r.tier = "tier2"
                             THEN acc.tier2 + r.eligible ELSE acc.tier2]

ZeroTotals ==
  [eligible |-> 0, protected |-> 0, excess |-> 0, nonProtected |-> 0,
   tier1 |-> 0, tier2 |-> 0]

\* the try block of the coverage GET handler, steps 3) to 5) and the response
CoverageResponse(kd, accounts, lim) ==
  LET byLicense == LabelLoop(<<>>, accounts, kd)
      capped    == [i \in 1..Len(byLicense) |-> ApplyCap(byLicense[i], lim)]
  IN  [rows |-> capped, totals |-> Totals(capped)]

\* the catch block of the coverage GET handler (status 500)
CoverageError == [rows |-> <<>>, totals |-> ZeroTotals]

(* ------------------------ DemoApp: computeRouting --------------------- *)
\* accounts.filter(a => a.type === "demand").reduce((s, a) => s + toKRW(a), 0)
demandKRW(accounts) ==
  Sum([i \in 1..Len(accounts) |->
         IF accounts[i].type = "demand" THEN toKRWClient(accounts[i]) ELSE 0])

\* variant: the category test left out of the loop
UsedByLicenseAnyType(accounts, lic) ==
  Sum([i \in 1..Len(accounts) |->
         IF KeyOf(accounts[i].license) = lic THEN toKRWClient(accounts[i]) ELSE 0])

\* usedByLicense[lic] ?? 0 after the loop over accounts
usedByLicense(accounts, lic) ==
  Sum([i \in 1..Len(accounts) |->
         IF accounts[i].type \in ProtectedTypes /\ KeyOf(accounts[i].license) = lic
         THEN toKRWClient(accounts[i]) ELSE 0])

\* variant: an offer goes in front of the offers of its own rate
RECURSIVE InsertByRateUnstable(_, _)
InsertByRateUnstable(sorted, o) ==
  IF sorted = <<>> THEN <<o>>
  ELSE IF Head(sorted).rate > o.rate
       THEN <<Head(sorted)>> \o InsertByRateUnstable(Tail(sorted), o)
       ELSE <<o>> \o sorted

\* Array.prototype.sort with (x, y) => y.rate - x.rate: stable, descending
RECURSIVE InsertByRate(_, _)
InsertByRate(sorted, o) ==
  IF sorted = <<>> THEN <<o>>
  ELSE IF Head(sorted).rate >= o.rate
       THEN <<Head(sorted)>> \o InsertByRate(Tail(sorted), o)
       ELSE <<o>> \o sorted

\* variant: the comparator written x.rate - y.rate, lowest rate first
RECURSIVE InsertByRateAscending(_, _)
InsertByRateAscending(sorted, o) ==
  IF sorted = <<>> THEN <<o>>
  ELSE IF Head(sorted).rate <= o.rate
       THEN <<Head(sorted)>> \o InsertByRateAscending(Tail(sorted), o)
       ELSE <<o>> \o sorted

RECURSIVE SortOffersAscending(_)
SortOffersAscending(offers) ==
  IF offers = <<>> THEN <<>>
  ELSE InsertByRateAscending(SortOffersAscending(SubSeq(offers, 1, Len(offers) - 1)),
                             offers[Len(offers)])

RECURSIVE SortOffers(_)
SortOffers(offers) ==
  IF offers = <<>> THEN <<>>
  ELSE InsertByRate(SortOffers(SubSeq(offers, 1, Len(offers) - 1)), offers[Len(offers)])

\* plan.filter(p => p.license === lic).reduce((s, p) => s + p.allocate, 0)
AlreadyAllocated(plan, lic) ==
  Sum([i \in 1..Len(plan) |-> IF plan[i].license = lic THEN plan[i].allocate ELSE 0])

\* variant: the current exposure of the license left out of the room
RoomIgnoringUsed(limitPerLicense, used, already) == Max(0, limitPerLicense - already)

\* variant: the room subtraction written the wrong way round
RoomReversed(limitPerLicense, used, already) == Max(0, used + already - limitPerLicense)

\* Math.max(0, limitPerLicense - used - already)
Room(limitPerLicense, used, already) == Max(0, limitPerLicense - used - already)

\* variant: the remaining idle cash left out of the minimum
BoundedAllocIgnoringRemain(remain, room) == Min(room, perOfferCeiling)

\* variant: the per-offer ceiling left out of the minimum
BoundedAllocNoCeiling(remain, room) == Min(remain, room)

\* Math.min(remain, room, 60_000_000)
BoundedAlloc(remain, room) == Min(Min(remain, room), perOfferCeiling)

\* variant: a license without room ends the walk instead of being passed over
RECURSIVE WalkEndsAtFullLicense(_, _, _, _, _)
WalkEndsAtFullLicense(sorted, plan, remain, limitPerLicense, accounts) ==
  IF sorted = <<>> \/ remain <= 0 THEN plan
  ELSE LET o       == Head(sorted)
           used    == usedByLicense(accounts, o.license)
           already == AlreadyAllocated(plan, o.license)
           room    == Room(limitPerLicense, used, already)
           alloc   == BoundedAlloc(remain, room)
       IN  IF room <= 0 \/ alloc <= 0
           THEN plan
           ELSE WalkEndsAtFullLicense(Tail(sorted),
                     Append(plan, [institution |-> o.institution, license |-> o.license,
                                   product |-> o.product, rate |-> o.rate,
                                   tenorM |-> o.tenorM, allocate |-> alloc,
                                   reason |-> [room |-> room, rate |-> o.rate,
                                               tenorM |-> o.tenorM]]),
                     remain - alloc, limitPerLicense, accounts)

\* `for (const o of sorted)`: result is the plan; reason keeps the numbers
\* the justification string is built from
RECURSIVE Walk(_, _, _, _, _)
Walk(sorted, plan, remain, limitPerLicense, accounts) ==
  IF sorted = <<>> \/ remain <= 0 THEN plan
  ELSE LET o       == Head(sorted)
           used    == usedByLicense(accounts, o.license)
           already == AlreadyAllocated(plan, o.license)
           room    == Room(limitPerLicense, used, already)
           alloc   == BoundedAlloc(remain, room)
       IN  IF room <= 0 \/ alloc <= 0
           THEN Walk(Tail(sorted), plan, remain, limitPerLicense, accounts)
           ELSE Walk(Tail(sorted),
                     Append(plan, [institution |-> o.institution, license |-> o.license,
                                   product |-> o.product, rate |-> o.rate,
                                   tenorM |-> o.tenorM, allocate |-> alloc,
                                   reason |-> [room |-> room, rate |-> o.rate,
                                               tenorM |-> o.tenorM]]),
                     remain - alloc, limitPerLicense, accounts)

\* Math.round(plan.reduce((s, p) => s + p.allocate * p.rate, 0)); with rates in
\* thousandths this is Round(sum of allocate * rate, RateScale), evaluated as
\* whole thousands plus the rounded remainder so that no product leaves the
\* 32-bit range of the checker
ProjectedInterest(plan) ==
  Sum([i \in 1..Len(plan) |-> (plan[i].allocate \div RateScale) * plan[i].rate])
    + Round(Sum([i \in 1..Len(plan) |-> (plan[i].allocate % RateScale) * plan[i].rate]),
            RateScale)

computeRouting(limitPerLicense, accounts) ==
  LET idleCash == Max(0, demandKRW(accounts) - liquidityReserve)
      plan     == Walk(SortOffers(rateOffers), <<>>, idleCash, limitPerLicense, accounts)
  IN  [liquidityReserve  |-> liquidityReserve,
       idleCash          |-> idleCash,
       plan              |-> plan,
       projectedInterest |-> ProjectedInterest(plan)]

(* ------------------------------ inputs -------------------------------- *)
Account(id, inst, lic, type, cur, bal, fx, prod) ==
  [id |-> id, institution |-> inst, license |-> lic, type |-> type,
   currency |-> cur, balance |-> bal, fxRate |-> fx, product_name |-> prod]

\* holdings a mydata response is made of
AccountPool ==
  { Account("P1", Kookmin, {toLicense(Kookmin)}, "demand", "KRW", {12000000}, {},
            {OrdinaryDeposit}),
    Account("P2", SavingsC, {toLicense(SavingsC)}, "term", "KRW", {95000000}, {},
            {TermDeposit12M}),
    Account("P3", Hana, {toLicense(Hana)}, "demand", "KRW", {150000000}, {},
            {OrdinaryDeposit}),
    Account("P4", Shinhan, {toLicense(Shinhan)}, "fx_deposit", "USD", {10000}, {},
            {ForeignDeposit}),
    Account("P5", Kookmin, {}, "term", "KRW", {60000000}, {}, {TermDeposit}),
    Account("P6", Meritz, {toLicense(Meritz)}, "demand", "KRW", {8000000}, {},
            {CmaAccount}),
    Account("P7", KBSavings, {toLicense(Kookmin)}, "demand", "KRW", {11000013}, {},
            {OrdinaryDeposit}),
    Account("P8", Nonghyup, {toLicense(Nonghyup)}, "trust_protected", "KRW", {30000000}, {},
            {MoneyTrust}),
    Account("N1", Meritz, {toLicense(Meritz)}, "investment", "KRW", {20000000}, {},
            {WrapAccount}) }

RECURSIVE SeqsUpTo(_, _)
SeqsUpTo(S, n) ==
  IF n = 0 THEN {<<>>}
  ELSE LET shorter == SeqsUpTo(S, n - 1)
       IN  shorter \cup { Append(s, x) : s \in shorter, x \in S }

\* bodies the mydata route can answer with
MydataResponses == SeqsUpTo(AccountPool, MaxAccounts)

\* data rows of /data/kdic_products.csv
CatalogFull ==
  << [institution |-> Kookmin,  product_name |-> OrdinaryDeposit],
     [institution |-> Kookmin,  product_name |-> TermDeposit],
     [institution |-> <<" ">> \o SavingsC, product_name |-> TermDepositPunc],
     [institution |-> Shinhan,  product_name |-> ForeignDeposit],
     [institution |-> Meritz,   product_name |-> CmaAccount],
     [institution |-> Meritz,   product_name |-> WrapAccount],
     [institution |-> Hana,     product_name |-> <<" ">>] >>

Catalogs == { <<>>, CatalogFull }

\* values of COVERAGE_LIMIT (50_000_000 when unset)
CoverageLimits == { 30000000, limit50m, limit100m }

(* ------------------------------- state -------------------------------- *)
VARIABLES
  catalog,        \* data rows of the catalog CSV the deployment serves
  coverageLimit,  \* Number(process.env.COVERAGE_LIMIT ?? 50_000_000)
  covAccounts,    \* coverage GET: accounts, the body of its own mydata request
  pc,             \* position of the async load effect of DemoApp
  rows,           \* useState<CoverageRow[]>
  totals,         \* useState<CoverageTotals>
  mydata,         \* useState<Account[]>
  use100m         \* useState(true)

\* one call of a pure helper on its own
VARIABLES
  fn,             \* "idle", or the name of the helper that has returned
  fnArg,          \* the argument of the call
  fnOut           \* the value returned

\* one request to the products route
VARIABLES
  serviceKey,     \* process.env.KDIC_SERVICE_KEY is set
  prPc,           \* position of the products GET handler
  prPage,         \* fetchAll: page
  prIter,         \* fetchAll: i
  prAll,          \* fetchAll: all, one entry per page pushed
  prRequests,     \* the fetchPage(page, rows) calls made so far, in order
  prError,        \* what fetchAll threw, "none" if nothing
  csvRes,         \* the Response of the CSV fetch: "none", "ok" or "notok"
  prResp          \* the NextResponse of the handler

appVars      == <<catalog, coverageLimit, covAccounts, pc, rows, totals, mydata, use100m>>
helperVars   == <<fn, fnArg, fnOut>>
productsVars == <<serviceKey, prPc, prPage, prIter, prAll, prRequests, prError, csvRes, prResp>>

vars == <<appVars, helperVars, productsVars>>

\* no helper call under way
HelperIdle == fn = "idle" /\ fnArg = <<>> /\ fnOut = <<>>

NoResponse == [status |-> 0, data |-> <<>>]

\* no request to the products route under way
ProductsIdle ==
  /\ serviceKey = FALSE
  /\ prPc = "idle"
  /\ prPage = 0
  /\ prIter = 0
  /\ prAll = <<>>
  /\ prRequests = <<>>
  /\ prError = "none"
  /\ csvRes = "none"
  /\ prResp = NoResponse

\* const limit = use100m ? 100_000_000 : 50_000_000
limit == IF use100m THEN limit100m ELSE limit50m

\* variant: the rows are shown with the cap values the server computed
AdjustedOfServerCap(rs, lim, tot) ==
  IF Len(rs) = 0 THEN [rows |-> <<>>, totals |-> tot]
  ELSE [rows |-> rs, totals |-> Totals(rs)]

\* useMemo adjusted
AdjustedOf(rs, lim, tot) ==
  IF Len(rs) = 0 THEN [rows |-> <<>>, totals |-> tot]
  ELSE LET cloned == [i \in 1..Len(rs) |->
                        [rs[i] EXCEPT !.protected = Min(rs[i].eligible, lim),
                                      !.excess    = Max(0, rs[i].eligible - lim)]]
       IN  [rows |-> cloned, totals |-> Totals(cloned)]

adjusted == AdjustedOf(rows, limit, totals)

\* useMemo routing
routing == computeRouting(limit, mydata)

Init ==
  /\ catalog \in Catalogs
  /\ coverageLimit \in CoverageLimits
  /\ covAccounts = <<>>
  /\ pc = "mounted"
  /\ rows = <<>>
  /\ totals = ZeroTotals
  /\ mydata = <<>>
  /\ use100m = TRUE
  /\ HelperIdle
  /\ ProductsIdle

\* fetch("/api/coverage") answered 200: the route aggregates the holdings its
\* own request to the mydata route returned
FetchCoverage ==
  /\ pc = "mounted"
  /\ \E accounts \in MydataResponses :
       LET j1 == CoverageResponse(loadKDIC(catalog), accounts, coverageLimit)
       IN  /\ covAccounts' = accounts
           /\ rows' = j1.rows
           /\ totals' = j1.totals
  /\ pc' = "coverage"
  /\ UNCHANGED <<catalog, coverageLimit, mydata, use100m>>
  /\ UNCHANGED <<helperVars, productsVars>>

\* fetch("/api/coverage") answered 500 (the CSV or the mydata request failed)
FetchCoverageFailed ==
  /\ pc = "mounted"
  /\ covAccounts' = <<>>
  /\ rows' = CoverageError.rows
  /\ totals' = CoverageError.totals
  /\ pc' = "coverage"
  /\ UNCHANGED <<catalog, coverageLimit, mydata, use100m>>
  /\ UNCHANGED <<helperVars, productsVars>>

\* fetch("/api/mydata"): a request of its own
FetchMydata ==
  /\ pc = "coverage"
  /\ \E accounts \in MydataResponses : mydata' = accounts
  /\ pc' = "loaded"
  /\ UNCHANGED <<catalog, coverageLimit, covAccounts, rows, totals, use100m>>
  /\ UNCHANGED <<helperVars, productsVars>>

\* onClick={() => setUse100m(false)}
Click50m ==
  /\ use100m' = FALSE
  /\ UNCHANGED <<catalog, coverageLimit, covAccounts, pc, rows, totals, mydata>>
  /\ UNCHANGED <<helperVars, productsVars>>

\* onClick={() => setUse100m(true)}
Click100m ==
  /\ use100m' = TRUE
  /\ UNCHANGED <<catalog, coverageLimit, covAccounts, pc, rows, totals, mydata>>
  /\ UNCHANGED <<helperVars, productsVars>>

Next ==
  \/ FetchCoverage
  \/ FetchCoverageFailed
  \/ FetchMydata
  \/ Click50m
  \/ Click100m

Spec == Init /\ [][Next]_vars

\* the page up to the arrival of the coverage response: what the claims about
\* the coverage rows and their re-capping depend on
NextCoverage ==
  \/ FetchCoverage
  \/ FetchCoverageFailed
  \/ Click50m
  \/ Click100m

SpecCoverage == Init /\ [][NextCoverage]_vars

\* the page when the coverage request was answered with the error body: what
\* the claims about computeRouting, which reads mydata and limit only, depend on
NextRouting ==
  \/ FetchCoverageFailed
  \/ FetchMydata
  \/ Click50m
  \/ Click100m

SpecRouting == Init /\ [][NextRouting]_vars

(* ------------------- helpers called on their own --------------------- *)
\* the page not mounted, no coverage request made
AppUnmounted ==
  /\ catalog = <<>>
  /\ coverageLimit = limit50m
  /\ covAccounts = <<>>
  /\ pc = "mounted"
  /\ rows = <<>>
  /\ totals = ZeroTotals
  /\ mydata = <<>>
  /\ use100m = TRUE

\* longest product name handed to key
MaxKeyLen == 2

KeyAlphabet == { "A", "a", " ", "-", "eun" }

\* product names looked up
KeyTexts == SeqsUpTo(KeyAlphabet, MaxKeyLen)

\* product names of the catalog row
KeyEntryTexts == { <<"A", "-", "eun">>, <<"a">>, <<"a", "eun">>, <<"-">>, <<" ">> }

\* institution names of the catalog row and of the holding
KeyInstitutions == { KBSavings, <<" ", "k", "b", "-", "jeo", "chuk", " ">> \o Eunhaeng, Kookmin }

\* a catalog CSV of one data row and the (institution, product) looked up in it
InitKey ==
  /\ AppUnmounted
  /\ ProductsIdle
  /\ fn = "idle"
  /\ fnOut = <<>>
  /\ fnArg \in [ entry : [institution : KeyInstitutions, product_name : KeyEntryTexts],
                  institution : KeyInstitutions,
                  product_name : KeyTexts ]

\* key(product name)
CallKey ==
  /\ fn = "idle"
  /\ fn' = "key"
  /\ fnOut' = <<key(fnArg.product_name)>>
  /\ UNCHANGED <<fnArg, appVars, productsVars>>

\* key applied to what key returned
CallKeyAgain ==
  /\ fn = "key"
  /\ fn' = "keykey"
  /\ fnOut' = Append(fnOut, key(fnOut[1]))
  /\ UNCHANGED <<fnArg, appVars, productsVars>>

\* loadKDIC on the one-row catalog, then the kd.has of the labelling loop
CallLookup ==
  /\ fn = "idle"
  /\ fn' = "lookup"
  /\ fnOut' = <<Matched(loadKDIC(<<fnArg.entry>>), fnArg.institution, fnArg.product_name)>>
  /\ UNCHANGED <<fnArg, appVars, productsVars>>

NextKey ==
  \/ CallKey
  \/ CallKeyAgain
  \/ CallLookup

SpecKey == InitKey /\ [][NextKey]_vars

\* currency, balance and fxRate (in tenths) of the holdings handed to toKRW
ToKRWCurrencies == { "KRW", "USD", "EUR", "usd" }
ToKRWBalances   == { {}, {0}, {1}, {3}, {-25}, {10000}, {12345} }
ToKRWFxRates    == { {}, {0}, {13}, {13505}, {14000} }

InitToKRW ==
  /\ AppUnmounted
  /\ ProductsIdle
  /\ fn = "idle"
  /\ fnOut = <<>>
  /\ \E cur \in ToKRWCurrencies : \E bal \in ToKRWBalances : \E fx \in ToKRWFxRates :
       fnArg = Account("T1", Shinhan, {toLicense(Shinhan)}, "fx_deposit", cur, bal, fx,
                       {ForeignDeposit})

\* toKRW of the coverage route
CallToKRW ==
  /\ fn = "idle"
  /\ fn' = "toKRW"
  /\ fnOut' = <<toKRW(fnArg)>>
  /\ UNCHANGED <<fnArg, appVars, productsVars>>

\* toKRW of DemoApp on the same holding
CallToKRWClient ==
  /\ fn = "toKRW"
  /\ fn' = "toKRWClient"
  /\ fnOut' = Append(fnOut, toKRWClient(fnArg))
  /\ UNCHANGED <<fnArg, appVars, productsVars>>

NextToKRW ==
  \/ CallToKRW
  \/ CallToKRWClient

SpecToKRW == InitToKRW /\ [][NextToKRW]_vars

\* most words a product name handed to inferTypeFromProduct is made of
MaxWords == 2

\* words of product names: one or two per keyword set, and one of none
InferWords ==
  { TermDeposit, <<"dan", "ri">>, <<"tong", "jang">>, <<"geup", "yeo">>,
    <<"dal", "reo">>, <<"u", "s", "d">>, <<"sin", "tak">>, CmaAccount }

RECURSIVE NamesUpTo(_)
NamesUpTo(n) ==
  IF n = 0 THEN {<<>>}
  ELSE LET shorter == NamesUpTo(n - 1)
       IN  shorter \cup { s \o w : s \in shorter, w \in InferWords }

InitInfer ==
  /\ AppUnmounted
  /\ ProductsIdle
  /\ fn = "idle"
  /\ fnOut = <<>>
  /\ fnArg \in NamesUpTo(MaxWords)

CallInferType ==
  /\ fn = "idle"
  /\ fn' = "inferTypeFromProduct"
  /\ fnOut' = <<inferTypeFromProduct(fnArg)>>
  /\ UNCHANGED <<fnArg, appVars, productsVars>>

NextInfer == CallInferType

SpecInfer == InitInfer /\ [][NextInfer]_vars

(* --------------------------- products route -------------------------- *)
\* for (let i = 0; i < 50; i++)
safetyCap == 50
\* const rows = 500
pageRows  == 500

\* items.length of a page that is neither empty nor full
ShortPages == { 1, pageRows - 1 }

\* what makes fetchPage throw: !res.ok, a resultCode other than "00", a JSON
\* root extractFromJson does not know
PageFailures == { "http", "api_error", "unexpected_json" }

\* variant: the loop over the CSV lines started one line too late
CsvFallbackRowsFromSecond(csvRows) ==
  IF Len(csvRows) + 1 > 1
  THEN [i \in 1..(Len(csvRows) - 1) |->
          [institution  |-> {csvRows[i + 1].institution},
           product_name |-> {csvRows[i + 1].product_name},
           discontinued |-> {},
           registered   |-> {}]]
  ELSE <<>>

\* the fallback's parse of the CSV text: header line plus the data lines; the
\* header names the institution and product columns, the two date columns are
\* absent and come out null
CsvFallbackRows(csvRows) ==
  IF Len(csvRows) + 1 > 1
  THEN [i \in 1..Len(csvRows) |->
          [institution  |-> {csvRows[i].institution},
           product_name |-> {csvRows[i].product_name},
           discontinued |-> {},
           registered   |-> {}]]
  ELSE <<>>

InitProducts ==
  /\ catalog \in Catalogs
  /\ coverageLimit = limit50m
  /\ covAccounts = <<>>
  /\ pc = "mounted"
  /\ rows = <<>>
  /\ totals = ZeroTotals
  /\ mydata = <<>>
  /\ use100m = TRUE
  /\ HelperIdle
  /\ serviceKey \in BOOLEAN
  /\ prPc = "idle"
  /\ prPage = 0
  /\ prIter = 0
  /\ prAll = <<>>
  /\ prRequests = <<>>
  /\ prError = "none"
  /\ csvRes = "none"
  /\ prResp = NoResponse

\* GET: fetchAll is entered; without a service key it throws at once
ProductsRequest ==
  /\ prPc = "idle"
  /\ IF serviceKey
     THEN /\ prPc' = "fetching"
          /\ prPage' = 1
          /\ prError' = "none"
     ELSE /\ prPc' = "fallback"
          /\ prPage' = prPage
          /\ prError' = "missing_key"
  /\ prIter' = 0
  /\ prAll' = <<>>
  /\ UNCHANGED <<serviceKey, prRequests, csvRes, prResp, appVars, helperVars>>

\* variant: the loop condition written i <= 50
LoopGoesOnInclusive(i) == i <= safetyCap

\* the condition of `for (let i = 0; i < 50; i++)`
LoopGoesOn(i) == i < safetyCap

\* return NextResponse.json(data, { status: 200 }) with data = fetchAll()
RespondWithAll(all) ==
  /\ prPc' = "done"
  /\ prResp' = [status |-> 200, data |-> all]

\* fetchPage returned a full page: push, page++, next iteration or loop end
FetchPageFull ==
  /\ prPc = "fetching"
  /\ prRequests' = Append(prRequests, [pageNo |-> prPage, numOfRows |-> pageRows])
  /\ prAll' = Append(prAll, [pageNo |-> prPage, numOfRows |-> pageRows, count |-> pageRows])
  /\ prPage' = prPage + 1
  /\ prIter' = prIter + 1
  /\ IF LoopGoesOn(prIter + 1)
     THEN prPc' = "fetching" /\ prResp' = prResp
     ELSE RespondWithAll(prAll')
  /\ UNCHANGED <<serviceKey, prError, csvRes, appVars, helperVars>>

\* fetchPage returned fewer than 500 items: push, break
FetchPageShort ==
  /\ prPc = "fetching"
  /\ prRequests' = Append(prRequests, [pageNo |-> prPage, numOfRows |-> pageRows])
  /\ \E n \in ShortPages :
       prAll' = Append(prAll, [pageNo |-> prPage, numOfRows |-> pageRows, count |-> n])
  /\ RespondWithAll(prAll')
  /\ UNCHANGED <<serviceKey, prPage, prIter, prError, csvRes, appVars, helperVars>>

\* fetchPage returned no item: break
FetchPageEmpty ==
  /\ prPc = "fetching"
  /\ prRequests' = Append(prRequests, [pageNo |-> prPage, numOfRows |-> pageRows])
  /\ RespondWithAll(prAll)
  /\ UNCHANGED <<serviceKey, prPage, prIter, prAll, prError, csvRes, appVars, helperVars>>

\* fetchPage threw: fetchAll throws, the handler's inner catch takes over
FetchPageThrows ==
  /\ prPc = "fetching"
  /\ prRequests' = Append(prRequests, [pageNo |-> prPage, numOfRows |-> pageRows])
  /\ \E e \in PageFailures : prError' = e
  /\ prPc' = "fallback"
  /\ UNCHANGED <<serviceKey, prPage, prIter, prAll, csvRes, prResp, appVars, helperVars>>

\* the catch block fetched the CSV and res.ok holds
FallbackCsvOk ==
  /\ prPc = "fallback"
  /\ csvRes' = "ok"
  /\ prPc' = "done"
  /\ prResp' = [status |-> 200, data |-> CsvFallbackRows(catalog)]
  /\ UNCHANGED <<serviceKey, prPage, prIter, prAll, prRequests, prError, appVars, helperVars>>

\* the catch block fetched the CSV and res.ok does not hold: data stays []
FallbackCsvNotOk ==
  /\ prPc = "fallback"
  /\ csvRes' = "notok"
  /\ prPc' = "done"
  /\ prResp' = [status |-> 200, data |-> <<>>]
  /\ UNCHANGED <<serviceKey, prPage, prIter, prAll, prRequests, prError, appVars, helperVars>>

\* the CSV fetch itself rejected: the outer catch answers 500
FallbackCsvThrows ==
  /\ prPc = "fallback"
  /\ prPc' = "done"
  /\ prResp' = [status |-> 500, data |-> <<"error">>]
  /\ UNCHANGED <<serviceKey, prPage, prIter, prAll, prRequests, prError, csvRes, appVars, helperVars>>

NextProducts ==
  \/ ProductsRequest
  \/ FetchPageFull
  \/ FetchPageShort
  \/ FetchPageEmpty
  \/ FetchPageThrows
  \/ FallbackCsvOk
  \/ FallbackCsvNotOk
  \/ FallbackCsvThrows

SpecProducts == InitProducts /\ [][NextProducts]_vars

(* ------------------------------ claims -------------------------------- *)
\* caps the allocator is examined under, the two the toggle selects included
RoutingCaps == { 0, 30000000, limit50m, limit100m }

\* total amount a plan allocates
PlanTotal(plan) == Sum([i \in 1..Len(plan) |-> plan[i].allocate])

\* every license an offer or a holding of the list names
LicensesOf(accounts) ==
  { rateOffers[i].license : i \in 1..Len(rateOffers) }
    \cup { KeyOf(accounts[i].license) : i \in 1..Len(accounts) }

\* C1: every coverage row, as produced by the coverage route under its cap and
\* as re-capped by the client under the toggled limit, has
\* protected + excess = eligible, protected = min(eligible, cap) and
\* excess = max(0, eligible - cap).
C1_RowCapInvariant ==
  /\ \A i \in 1..Len(rows) :
       /\ rows[i].protected + rows[i].excess = rows[i].eligible
       /\ rows[i].protected = Min(rows[i].eligible, coverageLimit)
       /\ rows[i].excess = Max(0, rows[i].eligible - coverageLimit)
  /\ \A i \in 1..Len(adjusted.rows) :
       /\ adjusted.rows[i].protected + adjusted.rows[i].excess = adjusted.rows[i].eligible
       /\ adjusted.rows[i].protected = Min(adjusted.rows[i].eligible, limit)
       /\ adjusted.rows[i].excess = Max(0, adjusted.rows[i].eligible - limit)

\* a row over the route's cap whose excess the client's higher limit removes
C1_Witness ==
  \E i \in 1..Len(rows) :
    /\ rows[i].excess > 0
    /\ rows[i].protected = coverageLimit
    /\ adjusted.rows[i].excess = 0
    /\ adjusted.rows[i].protected = rows[i].eligible

\* C2 as stated: for every license the plan's allocation to it is at most
\* cap - usedByLicense[license].
C2_Original ==
  \A lic \in LicensesOf(mydata) :
    AlreadyAllocated(routing.plan, lic) <= limit - usedByLicense(mydata, lic)

\* C2 amended: for every license and every cap the plan's allocation to it is
\* at most max(0, cap - usedByLicense[license]); a license whose exposure is
\* already above the cap receives nothing.
C2_HeadroomBound ==
  LET plan == [c \in RoutingCaps |-> computeRouting(c, mydata).plan]
  IN  \A cap \in RoutingCaps : \A lic \in LicensesOf(mydata) :
        /\ AlreadyAllocated(plan[cap], lic) >= 0
        /\ AlreadyAllocated(plan[cap], lic) <= Max(0, cap - usedByLicense(mydata, lic))

\* a license with exposure below the cap is filled exactly up to the cap while
\* another license, already above the cap, gets nothing
C2_Witness ==
  /\ pc = "loaded"
  /\ \E lic \in LicensesOf(mydata) :
       /\ usedByLicense(mydata, lic) > 0
       /\ usedByLicense(mydata, lic) < limit
       /\ AlreadyAllocated(routing.plan, lic) = limit - usedByLicense(mydata, lic)
  /\ \E lic \in LicensesOf(mydata) :
       /\ usedByLicense(mydata, lic) > limit
       /\ AlreadyAllocated(routing.plan, lic) = 0

\* C3: the allocations of a plan sum to at most
\* idleCash = max(0, demand total - liquidity reserve), which is the idleCash
\* returned; when the demand total does not exceed the reserve the plan is
\* empty.
C3_CashBound ==
  \A cap \in RoutingCaps :
    LET r      == computeRouting(cap, mydata)
        demand == Sum([i \in 1..Len(mydata) |->
                         IF mydata[i].type = "demand" THEN toKRWClient(mydata[i]) ELSE 0])
    IN  /\ r.idleCash = Max(0, demand - 10000000)
        /\ PlanTotal(r.plan) <= r.idleCash
        /\ (demand <= 10000000 => r.plan = <<>>)

\* idle cash larger than what the offers can take: the plan stays below it
C3_Witness ==
  /\ pc = "loaded"
  /\ Len(routing.plan) >= 2
  /\ PlanTotal(routing.plan) < routing.idleCash

\* demand holdings present but within the reserve: nothing is planned
C3_WitnessEmpty ==
  /\ pc = "loaded"
  /\ \E i \in 1..Len(mydata) : mydata[i].type = "demand"
  /\ routing.idleCash = 0
  /\ routing.plan = <<>>

\* C4: for the same holdings, a larger cap never gives a smaller total
\* allocation.
C4_CapMonotone ==
  LET total == [c \in RoutingCaps |-> PlanTotal(computeRouting(c, mydata).plan)]
  IN  \A c1 \in RoutingCaps : \A c2 \in RoutingCaps :
        c1 <= c2 => total[c1] <= total[c2]

\* the 100,000,000 cap allocates strictly more than the 50,000,000 cap, both
\* allocating something
C4_Witness ==
  /\ pc = "loaded"
  /\ 0 < PlanTotal(computeRouting(limit50m, mydata).plan)
  /\ PlanTotal(computeRouting(limit50m, mydata).plan)
       < PlanTotal(computeRouting(limit100m, mydata).plan)

\* C5: every plan entry allocates a strictly positive amount equal to
\* min(idle cash remaining at that step, room of the offer's license, 60,000,000)
\* with room = max(0, cap - used - amount the plan already gave the license);
\* under cap 100,000,000 a license with used 95,000,000 gets at most 5,000,000.
C5_EntryIsBindingMinimum ==
  \A cap \in RoutingCaps :
    LET r == computeRouting(cap, mydata)
    IN  /\ \A i \in 1..Len(r.plan) :
             LET before == SubSeq(r.plan, 1, i - 1)
                 remain == r.idleCash - PlanTotal(before)
                 room   == Max(0, cap - usedByLicense(mydata, r.plan[i].license)
                                      - AlreadyAllocated(before, r.plan[i].license))
             IN  /\ r.plan[i].allocate > 0
                 /\ r.plan[i].allocate = Min(remain, Min(room, 60000000))
                 /\ r.plan[i].reason.room = room
        /\ \A lic \in LicensesOf(mydata) :
             (cap = 100000000 /\ usedByLicense(mydata, lic) = 95000000)
               => AlreadyAllocated(r.plan, lic) <= 5000000

\* the scenario: the top-ranked offer's license has used 95,000,000 under the
\* 100,000,000 cap, gets 5,000,000, and later offers get the ceiling
C5_Witness ==
  /\ pc = "loaded"
  /\ use100m
  /\ Len(routing.plan) >= 2
  /\ usedByLicense(mydata, routing.plan[1].license) = 95000000
  /\ routing.plan[1].rate = 39
  /\ routing.plan[1].allocate = 5000000
  /\ routing.plan[2].allocate = 60000000
  /\ routing.idleCash > 65000000

\* amounts, in won, of the holdings of a list that satisfy / do not satisfy
\* "protected category and present in the catalog index"
CatalogMatch(a) ==
  (key(a.institution) \o <<"|">> \o key(OrElse(a.product_name, <<>>))) \in loadKDIC(catalog)

AmountsWhere(accounts, want) ==
  [i \in 1..Len(accounts) |->
     IF (accounts[i].type \in ProtectedTypes /\ CatalogMatch(accounts[i])) = want
     THEN toKRW(accounts[i]) ELSE 0]

\* C6: in every row eligible is the sum over the row's holdings that are of a
\* protected category and in the catalog, nonProtected the sum over all its
\* other holdings, so eligible + nonProtected is the sum over all its holdings.
C6_BucketsPartition ==
  \A i \in 1..Len(rows) :
    /\ rows[i].eligible = Sum(AmountsWhere(rows[i].accounts, TRUE))
    /\ rows[i].nonProtected = Sum(AmountsWhere(rows[i].accounts, FALSE))
    /\ rows[i].eligible + rows[i].nonProtected
         = Sum([k \in 1..Len(rows[i].accounts) |-> toKRW(rows[i].accounts[k])])

\* a row fed by an eligible and by a non-eligible holding
C6_Witness ==
  \E i \in 1..Len(rows) :
    /\ Len(rows[i].accounts) = 2
    /\ rows[i].eligible > 0
    /\ rows[i].nonProtected > 0

\* sum of one field over a list of rows
FieldSum(rs, f) == Sum([i \in 1..Len(rs) |-> rs[i][f]])

\* C7: each of the totals eligible, protected, excess, nonProtected is the sum
\* of that field over the rows, in the route's response and in the client's
\* re-capped totals.
C7_TotalsAreRowSums ==
  \A f \in {"eligible", "protected", "excess", "nonProtected"} :
    /\ totals[f] = FieldSum(rows, f)
    /\ adjusted.totals[f] = FieldSum(adjusted.rows, f)

\* two rows, one over the route's cap and one holding non-protected money, the
\* client's limit differing from the route's
C7_Witness ==
  /\ Len(rows) = 2
  /\ totals.excess > 0
  /\ totals.nonProtected > 0
  /\ rows[1].nonProtected # totals.nonProtected \/ rows[1].eligible # totals.eligible
  /\ adjusted.totals.protected # totals.protected
  /\ adjusted.totals.excess = 0

\* C8 as stated: tier1 + tier2 <= eligible, with equality only if no row is
\* classified "other".
C8_Original ==
  /\ totals.tier1 + totals.tier2 <= totals.eligible
  /\ (totals.tier1 + totals.tier2 = totals.eligible
        => \A i \in 1..Len(rows) : rows[i].tier # "other")

\* C8 amended: tier1 + tier2 <= eligible, with equality only if no row
\* classified "other" has eligible above 0; in the route's totals and the
\* client's.
C8_TierSubtotalBound ==
  /\ totals.tier1 + totals.tier2 <= totals.eligible
  /\ (totals.tier1 + totals.tier2 = totals.eligible
        => \A i \in 1..Len(rows) : rows[i].tier = "other" => rows[i].eligible = 0)
  /\ adjusted.totals.tier1 + adjusted.totals.tier2 <= adjusted.totals.eligible
  /\ (adjusted.totals.tier1 + adjusted.totals.tier2 = adjusted.totals.eligible
        => \A i \in 1..Len(adjusted.rows) :
              adjusted.rows[i].tier = "other" => adjusted.rows[i].eligible = 0)

\* an "other" row with eligible money next to a tier-2 row: strict inequality
C8_Witness ==
  /\ totals.tier2 > 0
  /\ \E i \in 1..Len(rows) : rows[i].tier = "other" /\ rows[i].eligible > 0
  /\ totals.tier1 + totals.tier2 < totals.eligible

\* C9: the investment holdings of a row are all counted in nonProtected and
\* none in eligible, catalogued or not.
C9_InvestmentNeverEligible ==
  \A i \in 1..Len(rows) :
    LET accs == rows[i].accounts
        inv  == Sum([k \in 1..Len(accs) |->
                       IF accs[k].type = "investment" THEN toKRW(accs[k]) ELSE 0])
    IN  /\ rows[i].nonProtected >= inv
        /\ rows[i].eligible <= Sum([k \in 1..Len(accs) |-> toKRW(accs[k])]) - inv
        /\ (\A k \in 1..Len(accs) : accs[k].type = "investment") => rows[i].eligible = 0

\* a row made of one catalogued investment holding only
C9_Witness ==
  \E i \in 1..Len(rows) :
    /\ Len(rows[i].accounts) = 1
    /\ rows[i].accounts[1].type = "investment"
    /\ CatalogMatch(rows[i].accounts[1])
    /\ rows[i].eligible = 0
    /\ rows[i].nonProtected = toKRW(rows[i].accounts[1])
    /\ rows[i].nonProtected > 0

\* C10: with an empty catalog index every holding is counted in nonProtected,
\* and eligible, protected and excess are 0 in every row and in the totals.
C10_EmptyCatalog ==
  loadKDIC(catalog) = {} =>
    /\ \A i \in 1..Len(rows) :
         /\ rows[i].eligible = 0 /\ rows[i].protected = 0 /\ rows[i].excess = 0
         /\ rows[i].nonProtected
              = Sum([k \in 1..Len(rows[i].accounts) |-> toKRW(rows[i].accounts[k])])
    /\ totals.eligible = 0 /\ totals.protected = 0 /\ totals.excess = 0
    /\ totals.nonProtected = FieldSum(rows, "nonProtected")

\* empty index, a holding of a protected category, its amount in nonProtected
C10_Witness ==
  /\ loadKDIC(catalog) = {}
  /\ \E i \in 1..Len(rows) :
       /\ \E k \in 1..Len(rows[i].accounts) : rows[i].accounts[k].type \in ProtectedTypes
       /\ rows[i].nonProtected > 0
  /\ totals.nonProtected > 0

\* a text with letter case, whitespace and the stripped punctuation removed
Canonical(s) ==
  SelectSeq([i \in 1..Len(s) |-> toLowerCase(s[i])],
            LAMBDA c : c \notin (Whitespace \cup Punctuation))

\* C11: key(key(x)) = key(x), and the lookup of (institution, product) succeeds
\* whenever the catalog holds an entry (a row non-empty after trimming) whose
\* institution and product differ from the ones looked up only in letter case,
\* whitespace or the stripped punctuation characters.
C11_KeyIdempotentLookupTolerant ==
  /\ fn = "keykey" => fnOut[2] = fnOut[1]
  /\ (/\ fn = "lookup"
      /\ trim(fnArg.entry.institution) # <<>>
      /\ trim(fnArg.entry.product_name) # <<>>
      /\ Canonical(fnArg.entry.institution) = Canonical(fnArg.institution)
      /\ Canonical(fnArg.entry.product_name) = Canonical(fnArg.product_name))
       => fnOut[1] = TRUE

\* a name that key shortens, normalised twice
C11_Witness ==
  /\ fn = "keykey"
  /\ fnArg.product_name = <<"-", "A">>
  /\ fnOut = << <<"a">>, <<"a">> >>

\* a lookup that succeeds although both the institution and the product are
\* written differently in the catalog
C11_WitnessLookup ==
  /\ fn = "lookup"
  /\ fnArg.entry.institution # fnArg.institution
  /\ fnArg.entry.product_name # fnArg.product_name
  /\ fnOut[1] = TRUE

\* the offer of the highest annual rate (the rates of rateOffers are distinct)
TopOffer ==
  rateOffers[CHOOSE i \in 1..Len(rateOffers) :
               \A k \in 1..Len(rateOffers) : rateOffers[i].rate >= rateOffers[k].rate]

\* reporting-currency total of the demand holdings
DemandTotal(accounts) ==
  Sum([i \in 1..Len(accounts) |->
         IF accounts[i].type = "demand" THEN toKRWClient(accounts[i]) ELSE 0])

\* round(d * rate) for a rate in thousandths
InterestOn(d, rate) == (d \div 1000) * rate + Round((d % 1000) * rate, 1000)

\* C12: when the demand holdings exceed the reserve of 10,000,000 by d > 0,
\* d is at most 60,000,000 and the license of the top-ranked offer has room
\* >= d, computeRouting returns idleCash = d, a plan of exactly one entry that
\* gives the whole d to that offer, and projectedInterest = round(d * its rate).
C12_SingleOfferTakesAll ==
  \A cap \in RoutingCaps :
    LET d == DemandTotal(mydata) - 10000000
        r == computeRouting(cap, mydata)
    IN  (/\ d > 0
         /\ d <= 60000000
         /\ Max(0, cap - usedByLicense(mydata, TopOffer.license)) >= d)
          => /\ r.idleCash = d
             /\ Len(r.plan) = 1
             /\ r.plan[1].allocate = d
             /\ r.plan[1].license = TopOffer.license
             /\ r.plan[1].institution = TopOffer.institution
             /\ r.plan[1].rate = TopOffer.rate
             /\ r.projectedInterest = InterestOn(d, TopOffer.rate)

\* the scenario: demand of 12,000,000 gives idle cash 2,000,000, all of it to
\* the 3.9 % offer, projected interest 78,000
C12_Witness ==
  /\ pc = "loaded"
  /\ DemandTotal(mydata) = 12000000
  /\ routing.idleCash = 2000000
  /\ Len(routing.plan) = 1
  /\ routing.plan[1].allocate = 2000000
  /\ routing.plan[1].rate = 39
  /\ routing.projectedInterest = 78000

\* an amount whose interest is not whole: 1,000,013 * 0.039 = 39,000.507
C12_WitnessRounded ==
  /\ pc = "loaded"
  /\ routing.idleCash = 1000013
  /\ Len(routing.plan) = 1
  /\ routing.projectedInterest = 39001

\* C13: whenever the KDIC API call failed (no service key, an HTTP error, an
\* API error result) and the CSV was fetched successfully, the products route
\* answers status 200 with the rows read from the CSV.
C13_CsvFallback ==
  (prPc = "done" /\ prError # "none" /\ csvRes = "ok")
    => /\ prResp.status = 200
       /\ Len(prResp.data) = Len(catalog)
       /\ \A i \in 1..Len(catalog) :
            /\ prResp.data[i].institution = {catalog[i].institution}
            /\ prResp.data[i].product_name = {catalog[i].product_name}

\* the API failed on a later page, after a full page had been pushed, and the
\* answer is the CSV's rows
C13_Witness ==
  /\ prPc = "done"
  /\ prError = "http"
  /\ Len(prAll) >= 1
  /\ csvRes = "ok"
  /\ prResp.status = 200
  /\ Len(prResp.data) = Len(CatalogFull)
  /\ prResp.data[1].institution = {Kookmin}

\* the offer list of the component, and the same offers with some rates made
\* equal (rates in thousandths)
OfferLists ==
  { rateOffers }
    \cup { [i \in 1..Len(rateOffers) |-> [rateOffers[i] EXCEPT !.rate = rs[i]]] :
             rs \in { <<33, 33, 33, 33, 33>>, <<33, 31, 33, 31, 39>>, <<31, 34, 34, 34, 31>> } }

\* position of the offer of a license in an offer list
OfferIndex(offers, lic) == CHOOSE i \in 1..Len(offers) : offers[i].license = lic

\* the plan the walk builds from an offer list for the holdings on display
PlanFor(offers) == Walk(SortOffers(offers), <<>>, routing.idleCash, limit, mydata)

\* C14: the plan entries appear in non-increasing order of rate, entries of
\* equal rate in the order of the offer list, and every offer of a higher rate
\* than an entry was considered before it: it has an earlier entry or its
\* license had no room.
C14_PlanByRateStable ==
  /\ PlanFor(rateOffers) = routing.plan
  /\ \A offers \in OfferLists :
       LET plan == PlanFor(offers)
       IN  /\ \A i, j \in 1..Len(plan) :
                i < j => /\ plan[i].rate >= plan[j].rate
                         /\ plan[i].rate = plan[j].rate
                              => OfferIndex(offers, plan[i].license)
                                   < OfferIndex(offers, plan[j].license)
           /\ \A k \in 1..Len(plan) : \A n \in 1..Len(offers) :
                offers[n].rate > plan[k].rate
                  => \/ \E i \in 1..(k - 1) : plan[i].license = offers[n].license
                     \/ Max(0, limit - usedByLicense(mydata, offers[n].license)) = 0

\* three offers are funded in rate order while the best-paying offer, whose
\* license is full, is passed over; with all rates equal the plan follows the
\* offer list
C14_Witness ==
  /\ Len(routing.plan) = 3
  /\ routing.plan[1].license = toLicense(Nonghyup)
  /\ routing.plan[2].license = toLicense(Kookmin)
  /\ routing.plan[3].license = toLicense(Shinhan)
  /\ usedByLicense(mydata, toLicense(SavingsC)) >= limit
  /\ \E offers \in OfferLists :
       /\ \A n \in 1..Len(offers) : offers[n].rate = 33
       /\ Len(PlanFor(offers)) = 3
       /\ PlanFor(offers)[1].license = toLicense(Kookmin)

\* room of a license before the walk
RoomAtStart(lic) == Max(0, limit - usedByLicense(mydata, lic))

\* C15: an offer whose license has no room gets no plan entry and does not end
\* the walk: on return either the allocations sum to idleCash or every offer
\* has received exactly min(room, 60,000,000), nothing when its room is 0.
C15_WalkEndsOnlyWhenDone ==
  /\ \A k \in 1..Len(routing.plan) : RoomAtStart(routing.plan[k].license) > 0
  /\ \/ PlanTotal(routing.plan) = routing.idleCash
     \/ \A n \in 1..Len(rateOffers) :
          AlreadyAllocated(routing.plan, rateOffers[n].license)
            = Min(RoomAtStart(rateOffers[n].license), 60000000)

\* the best-paying offer's license has no room: it gets no entry, and the walk
\* goes on to place the whole idle cash with the offers after it
C15_Witness ==
  /\ RoomAtStart(toLicense(SavingsC)) = 0
  /\ AlreadyAllocated(routing.plan, toLicense(SavingsC)) = 0
  /\ routing.idleCash > 0
  /\ PlanTotal(routing.plan) = routing.idleCash
  /\ routing.plan[1].license = toLicense(Nonghyup)

\* cash is left over after the whole list was walked: the license without
\* room got nothing and every other offer was funded to its bound
C15_WitnessLeftover ==
  /\ PlanTotal(routing.plan) < routing.idleCash
  /\ RoomAtStart(toLicense(Hana)) = 0
  /\ Len(routing.plan) = 4
  /\ \A k \in 1..4 : routing.plan[k].allocate
                       = Min(RoomAtStart(routing.plan[k].license), 60000000)

\* reporting-currency amount the holdings of a license and a category add up to
AmountOfCategory(accounts, lic, category) ==
  Sum([i \in 1..Len(accounts) |->
         IF KeyOf(accounts[i].license) = lic /\ accounts[i].type = category
         THEN toKRWClient(accounts[i]) ELSE 0])

\* C16: usedByLicense[license] is the sum of the reporting-currency amounts of
\* the license's demand, term, fx_deposit and trust_protected holdings,
\* whatever the catalog holds; investment holdings add nothing.
C16_UsedByLicense ==
  \A lic \in LicensesOf(mydata) :
    /\ usedByLicense(mydata, lic)
         = AmountOfCategory(mydata, lic, "demand") + AmountOfCategory(mydata, lic, "term")
             + AmountOfCategory(mydata, lic, "fx_deposit")
             + AmountOfCategory(mydata, lic, "trust_protected")
    /\ \A i \in 1..Len(mydata) :
         mydata[i].type = "investment"
           => usedByLicense(mydata, lic)
                = usedByLicense(SubSeq(mydata, 1, i - 1)
                                  \o SubSeq(mydata, i + 1, Len(mydata)), lic)

\* a trust holding counts for its license although the catalog is empty, an
\* investment holding counts for nothing
C16_Witness ==
  /\ catalog = <<>>
  /\ \E i \in 1..Len(mydata) : mydata[i].type = "investment"
  /\ usedByLicense(mydata, toLicense(Nonghyup)) = 30000000
  /\ usedByLicense(mydata, toLicense(Meritz)) = 0

\* positions of a holdings sequence at which a license key occurs for the
\* first time, in increasing order
RECURSIVE FirstOccurrences(_, _)
FirstOccurrences(accounts, n) ==
  IF n = 0 THEN <<>>
  ELSE LET before == FirstOccurrences(accounts, n - 1)
       IN  IF \E j \in 1..(n - 1) : LicenseKey(accounts[j]) = LicenseKey(accounts[n])
           THEN before ELSE Append(before, n)

\* C17: the coverage response has exactly one row per distinct license key, in
\* the order in which the licenses first occur in the holdings, and each row
\* shows the institution and the tier of the first holding of its license.
C17_RowsInFirstSeenOrder ==
  LET first == FirstOccurrences(covAccounts, Len(covAccounts))
  IN  /\ Len(rows) = Len(first)
      /\ Len(rows) = Cardinality({ LicenseKey(covAccounts[i]) : i \in 1..Len(covAccounts) })
      /\ \A r \in 1..Len(rows) :
           /\ rows[r].license = LicenseKey(covAccounts[first[r]])
           /\ rows[r].institutions = covAccounts[first[r]].institution
           /\ rows[r].tier = classifyTier(covAccounts[first[r]].institution)

\* two holdings of one license under different institution names, of
\* different tiers: one row, showing the first
C17_Witness ==
  /\ Len(covAccounts) = 2
  /\ LicenseKey(covAccounts[1]) = LicenseKey(covAccounts[2])
  /\ covAccounts[1].institution = Kookmin
  /\ covAccounts[2].institution = KBSavings
  /\ Len(rows) = 1
  /\ rows[1].institutions = Kookmin
  /\ rows[1].tier = "tier1"
  /\ Len(rows[1].accounts) = 2

\* two licenses: the rows follow the holdings, not the offer list or the names
C17_WitnessOrder ==
  /\ Len(rows) = 2
  /\ rows[1].license = toLicense(SavingsC)
  /\ rows[2].license = toLicense(Kookmin)
  /\ covAccounts[1].institution = SavingsC

\* v is balance * fxRate rounded to the nearest whole unit, halves upwards;
\* the product p is in tenths
NearestUnit(p, v) == 10 * v - 5 <= p /\ p < 10 * v + 5

\* C18: toKRW turns a USD holding into round(balance * fxRate), with 1400 for
\* an unset fxRate, returns every other currency's balance unchanged, takes a
\* missing balance as 0; the coverage route's copy and DemoApp's agree.
C18_ToKRW ==
  fn = "toKRWClient" =>
    LET bal == IF fnArg.balance = {} THEN 0 ELSE CHOOSE b \in fnArg.balance : TRUE
        fx  == IF fnArg.fxRate = {} THEN 14000 ELSE CHOOSE f \in fnArg.fxRate : TRUE
    IN  /\ fnArg.currency = "USD" => NearestUnit(bal * fx, fnOut[1])
        /\ fnArg.currency # "USD" => fnOut[1] = bal
        /\ fnOut[2] = fnOut[1]

\* a USD holding without fxRate is converted at 1400 by both copies
C18_Witness ==
  /\ fn = "toKRWClient"
  /\ fnArg.currency = "USD"
  /\ fnArg.fxRate = {}
  /\ fnArg.balance = {10000}
  /\ fnOut = <<14000000, 14000000>>

\* 3 dollars at 1350.5 are 4051.5, rounded up
C18_WitnessRounded ==
  /\ fn = "toKRWClient"
  /\ fnArg.currency = "USD"
  /\ fnArg.fxRate = {13505}
  /\ fnArg.balance = {3}
  /\ fnOut[1] = 4052

\* C19: inferTypeFromProduct applies the keyword sets in the order term,
\* demand, foreign currency, trust: the first set the name matches decides; a
\* name matching none, the empty name included, is demand; the result is never
\* investment.
C19_InferPriority ==
  fn = "inferTypeFromProduct" =>
    LET isTerm   == Test(TermKeywords, fnArg)
        isDemand == Test(DemandKeywords, fnArg)
        isFx     == TestIgnoreCase(FxKeywords, fnArg)
        isTrust  == Test(TrustKeywords, fnArg)
    IN  /\ isTerm => fnOut[1] = "term"
        /\ (~isTerm /\ isDemand) => fnOut[1] = "demand"
        /\ (~isTerm /\ ~isDemand /\ isFx) => fnOut[1] = "fx_deposit"
        /\ (~isTerm /\ ~isDemand /\ ~isFx /\ isTrust) => fnOut[1] = "trust_protected"
        /\ (~isTerm /\ ~isDemand /\ ~isFx /\ ~isTrust) => fnOut[1] = "demand"
        /\ fnOut[1] # "investment"

\* a passbook for a term deposit is term
C19_Witness ==
  /\ fn = "inferTypeFromProduct"
  /\ Test(TermKeywords, fnArg)
  /\ Test(DemandKeywords, fnArg)
  /\ fnOut = <<"term">>

\* a dollar trust is fx_deposit (the keyword in lower case), the empty name
\* is demand
C19_WitnessFx ==
  /\ fn = "inferTypeFromProduct"
  /\ fnArg = <<"u", "s", "d", "sin", "tak">>
  /\ fnOut = <<"fx_deposit">>

C19_WitnessEmpty ==
  /\ fn = "inferTypeFromProduct"
  /\ fnArg = <<>>
  /\ fnOut = <<"demand">>

\* the rows of the coverage response the page loaded
LoadedRows ==
  IF covAccounts = <<>> THEN <<>>
  ELSE CoverageResponse(loadKDIC(catalog), covAccounts, coverageLimit).rows

\* C20: once the coverage rows are loaded, whatever the cap toggles did, each
\* displayed row has protected = min(eligible, limit) and excess = max(0,
\* eligible - limit) for the current limit and the eligible, nonProtected, tier
\* and license the server sent; a toggle leaves the loaded rows alone, and the
\* values displayed before it are those of the previous limit again.
C20_ToggleFrame ==
  /\ [](pc # "mounted" =>
          /\ rows = LoadedRows
          /\ Len(adjusted.rows) = Len(rows)
          /\ \A i \in 1..Len(rows) :
               /\ adjusted.rows[i].protected = Min(rows[i].eligible, limit)
               /\ adjusted.rows[i].excess = Max(0, rows[i].eligible - limit)
               /\ adjusted.rows[i].eligible = rows[i].eligible
               /\ adjusted.rows[i].nonProtected = rows[i].nonProtected
               /\ adjusted.rows[i].tier = rows[i].tier
               /\ adjusted.rows[i].license = rows[i].license)
  /\ [][use100m' # use100m =>
          /\ rows' = rows
          /\ totals' = totals
          /\ AdjustedOf(rows', limit, totals') = adjusted]_vars

\* the cap was toggled to 50,000,000 after the load: a row over the cap is
\* displayed re-capped, with values other than the server's
C20_Witness ==
  /\ pc = "coverage"
  /\ use100m = FALSE
  /\ \E i \in 1..Len(rows) :
       /\ rows[i].eligible > 50000000
       /\ adjusted.rows[i].protected = 50000000
       /\ adjusted.rows[i].excess = rows[i].eligible - 50000000
       /\ rows[i].protected # adjusted.rows[i].protected
       /\ rows[i].excess # adjusted.rows[i].excess

\* C21: once the initial load has completed, the holdings the routing plan is
\* computed from are the holdings that were aggregated into the displayed
\* coverage rows.
C21_SameHoldings ==
  (pc = "loaded" /\ Len(rows) > 0) => mydata = covAccounts

\* reporting-currency amount of the protected-category holdings of a coverage row
ProtectedCategoryAmount(row) ==
  Sum([k \in 1..Len(row.accounts) |->
         IF row.accounts[k].type \in {"demand", "term", "fx_deposit", "trust_protected"}
         THEN toKRW(row.accounts[k]) ELSE 0])

\* C22: for the same list of holdings, the key under which the coverage
\* aggregation groups a holding is the key under which computeRouting counts
\* it, so usedByLicense[license] equals the protected-category amount of that
\* license's coverage row, holdings without a license field included.
C22_SameLicenseKey ==
  (pc = "loaded" /\ mydata = covAccounts) =>
    /\ \A i \in 1..Len(mydata) : LicenseKey(mydata[i]) = KeyOf(mydata[i].license)
    /\ \A r \in 1..Len(rows) :
         usedByLicense(mydata, rows[r].license) = ProtectedCategoryAmount(rows[r])

\* fetchAll has returned its result to the handler
FetchAllReturned == prPc = "done" /\ prError = "none"

\* C23: fetchAll makes at most 50 page requests, for pages 1, 2, 3, ... in
\* order with 500 rows each; it goes on only after a full page and stops at
\* the first page that is empty or short; what it returns is the fetched pages
\* in request order; without a service key it throws and requests nothing.
C23_FetchAllBounded ==
  /\ Len(prRequests) <= 50
  /\ \A k \in 1..Len(prRequests) : prRequests[k] = [pageNo |-> k, numOfRows |-> 500]
  /\ Len(prRequests) = 50 => prPc # "fetching"
  /\ \A k \in 1..Len(prAll) :
       /\ prAll[k].pageNo = k
       /\ k <= Len(prRequests)
       /\ (k < Len(prRequests) => prAll[k].count = 500)
       /\ prAll[k].count > 0
  /\ FetchAllReturned =>
       /\ prResp = [status |-> 200, data |-> prAll]
       /\ \/ Len(prRequests) = Len(prAll) + 1
          \/ Len(prRequests) = Len(prAll) /\ prAll[Len(prAll)].count < 500
          \/ Len(prRequests) = Len(prAll) /\ Len(prAll) = 50
  /\ (~serviceKey /\ prPc # "idle") => (prRequests = <<>> /\ prError = "missing_key")

\* fifty full pages: the loop ends at its cap and the fifty pages are returned
C23_Witness ==
  /\ FetchAllReturned
  /\ Len(prRequests) = 50
  /\ Len(prAll) = 50
  /\ prAll[50].count = 500
  /\ prResp.status = 200

\* two full pages and an empty third: three requests, two pages returned
C23_WitnessEmptyPage ==
  /\ FetchAllReturned
  /\ Len(prRequests) = 3
  /\ Len(prResp.data) = 2

\* no service key: the fallback was taken without a single request
C23_WitnessNoKey ==
  /\ ~serviceKey
  /\ prPc = "done"
  /\ prError = "missing_key"
  /\ prRequests = <<>>

====
